---- MODULE Spec2Model ----
(***************************************************************************)
(* Model of the MicroPython monitoring probes (gpio_monitor.py,            *)
(* i2c_scanner.py, wifi_scanner.py, system_monitor.py) and of boot.py.     *)
(*                                                                         *)
(* Text is a sequence of one-character strings, so that json.dumps, the    *)
(* f-strings and the '%02x' formatting are modelled by what they produce.  *)
(* A JSON value is a record [t, n, s, kids] of one uniform shape:          *)
(*   t = "int"  : the integer n                                            *)
(*   t = "str"  : the text s                                               *)
(*   t = "list" : the elements kids                                        *)
(*   t = "dict" : kids are "pair" values (key s, value kids[1]), in        *)
(*                insertion order                                          *)
(*   t = "none" : no value (the function did not return)                   *)
(***************************************************************************)
EXTENDS Integers, Sequences, FiniteSets, TLC

VARIABLES
    phase,        \* "idle": no probe loaded; "done": the loaded probe ran to its end
    probe,        \* the probe that ran: "none", "gpio", "i2c", "wifi", "system"
    env,          \* what the hardware and runtime calls of this invocation answer
    result,       \* the value the probe's collector returned (JNone if it raised)
    out,          \* the lines this invocation printed on the console
    raised,       \* TRUE iff an exception left the probe
    accessLog,    \* the units this invocation accessed, in order
    tempRead,     \* "no", "ok" or "threw": what became of machine.temperature()
    pinMode,      \* device: the mode of every candidate pin
    wlanActive,   \* device: the station interface's active flag
    i2cBus,       \* device: per bus id, <<>> (never set up) or <<scl, sda>>
    devBefore,    \* the device state when the running probe was loaded
    bootpc,       \* boot.py: the line the script is at
    linkUp,       \* boot.py: whether the station is associated (the radio's state)
    connectCalls, \* boot.py: how often wlan.connect was called
    idleCalls,    \* boot.py: how often machine.idle was called (capped)
    sawConnected, \* boot.py: isconnected() has returned True to the script
    webreplStarted, \* boot.py: webrepl.start() was called
    mac,          \* boot.py: the bytes wlan.config('mac') returns
    mac_address   \* boot.py: the text line 22 prints for them (<<>> before)

vars == <<phase, probe, env, result, out, raised, accessLog, tempRead, pinMode,
          wlanActive, i2cBus, devBefore, bootpc, linkUp, connectCalls, idleCalls,
          sawConnected, webreplStarted, mac, mac_address>>

probeVars == <<phase, probe, env, result, out, raised, accessLog, tempRead,
               pinMode, i2cBus, devBefore>>   \* all but wlanActive, which boot.py sets

bootVars == <<bootpc, linkUp, connectCalls, idleCalls, sawConnected,
              webreplStarted, mac, mac_address>>

---------------------------------------------------------------------------
(* Bounds of the model *)

MaxPinFaults == 1    \* pins that fail in one GPIO invocation (or all of them)
MaxScanLen == 2      \* addresses one i2c.scan() returns
MaxNets == 2         \* networks one wlan.scan() returns
MaxIdle == 3         \* machine.idle() calls that are counted

---------------------------------------------------------------------------
(* Text *)

DigitChars == <<"0", "1", "2", "3", "4", "5", "6", "7", "8", "9">>

RECURSIVE NatStr(_)
NatStr(n) ==
    IF n < 10 THEN <<DigitChars[n + 1]>>
    ELSE NatStr(n \div 10) \o <<DigitChars[(n % 10) + 1]>>

\* str(int), as the f-string and json.dumps print an integer
IntStr(n) == IF n < 0 THEN <<"-">> \o NatStr(0 - n) ELSE NatStr(n)

RECURSIVE Join(_, _)
\* sep.join(parts)
Join(parts, sep) ==
    IF Len(parts) = 0 THEN <<>>
    ELSE IF Len(parts) = 1 THEN parts[1]
    ELSE parts[1] \o sep \o Join(Tail(parts), sep)

Range(s) == {s[i] : i \in 1..Len(s)}

---------------------------------------------------------------------------
(* JSON values and json.dumps *)

JNone == [t |-> "none", n |-> 0, s |-> <<>>, kids |-> <<>>]
JInt(n) == [t |-> "int", n |-> n, s |-> <<>>, kids |-> <<>>]
JStr(s) == [t |-> "str", n |-> 0, s |-> s, kids |-> <<>>]
JList(xs) == [t |-> "list", n |-> 0, s |-> <<>>, kids |-> xs]
JPair(k, v) == [t |-> "pair", n |-> 0, s |-> k, kids |-> <<v>>]
JDict(pairs) == [t |-> "dict", n |-> 0, s |-> <<>>, kids |-> pairs]

Keys(d) == {d.kids[i].s : i \in 1..Len(d.kids)}
HasKey(d, k) == d.t = "dict" /\ k \in Keys(d)
Get(d, k) == d.kids[CHOOSE i \in 1..Len(d.kids) : d.kids[i].s = k].kids[1]

\* d[k] = v on a Python dict: an existing key keeps its place
DictSet(d, k, v) ==
    IF k \in Keys(d)
    THEN JDict([i \in 1..Len(d.kids) |->
                   IF d.kids[i].s = k THEN JPair(k, v) ELSE d.kids[i]])
    ELSE JDict(Append(d.kids, JPair(k, v)))

\* one character inside a JSON string literal
EscapeChar(c) ==
    CASE c = "\"" -> <<"\\", "\"">>
      [] c = "\\" -> <<"\\", "\\">>
      [] c = "\n" -> <<"\\", "n">>
      [] c = "\r" -> <<"\\", "r">>
      [] c = "\t" -> <<"\\", "t">>
      [] OTHER -> <<c>>

RECURSIVE EscapeStr(_)
EscapeStr(s) ==
    IF Len(s) = 0 THEN <<>> ELSE EscapeChar(Head(s)) \o EscapeStr(Tail(s))

Quoted(s) == <<"\"">> \o EscapeStr(s) \o <<"\"">>

RECURSIVE Dumps(_)
\* json.dumps(v): ", " between items, ": " between key and value
Dumps(v) ==
    CASE v.t = "int" -> IntStr(v.n)
      [] v.t = "str" -> Quoted(v.s)
      [] v.t = "list" ->
            <<"[">> \o Join([i \in 1..Len(v.kids) |-> Dumps(v.kids[i])], <<",", " ">>)
                    \o <<"]">>
      [] v.t = "dict" ->
            <<"{">> \o Join([i \in 1..Len(v.kids) |-> Dumps(v.kids[i])], <<",", " ">>)
                    \o <<"}">>
      [] v.t = "pair" -> Quoted(v.s) \o <<":", " ">> \o Dumps(v.kids[1])
      [] OTHER -> <<"n", "u", "l", "l">>

ErrorKey == <<"e", "r", "r", "o", "r">>
\* {'error': str(e)}
ErrorRecord(msg) == JDict(<<JPair(ErrorKey, JStr(msg))>>)

\* the texts str(e) can be: the message is the exception's, not the probe's
ErrMsgs == { <<"E", "1", "9">>, <<"b", "u", "s", "\n", "\"", "x", "\"">> }

\* what a collector hands to its sender: a value, or an exception on its way up
Returned(v) == [raised |-> FALSE, value |-> v]
Raised == [raised |-> TRUE, value |-> JNone]

\* print(f"<sentinel>{json.dumps(x)}"): one console line, or none if x never came
PrintMarker(sentinel, outcome) ==
    IF outcome.raised THEN <<>> ELSE << sentinel \o Dumps(outcome.value) >>

---------------------------------------------------------------------------
(* The answers of the hardware during one invocation.  One record shape    *)
(* serves the four probes; a probe reads only its own fields.              *)

Ok(v) == [ok |-> TRUE, v |-> v]
Throws == [ok |-> FALSE, v |-> 0]

NoEnv ==
    [ topFault |-> FALSE,      \* gpio, i2c: an exception before the first unit
      msg |-> <<>>,            \* str(e) of whatever exception is raised
      initFail |-> {},         \* gpio: pins whose Pin(n, Pin.IN) throws
      readFail |-> {},         \* gpio: pins whose pin.value() throws
      high |-> {},             \* gpio: pins that read 1
      buses |-> <<>>,          \* i2c: per configuration, [init, scanOk, found]
      wlanOk |-> TRUE,         \* wifi: network.WLAN(STA_IF) returns
      activeOk |-> TRUE,       \* wifi: wlan.active(True) returns
      scanOk |-> TRUE,         \* wifi: wlan.scan() returns
      nets |-> <<>>,           \* wifi: the tuples wlan.scan() returns
      memFree |-> Ok(0),       \* system: gc.mem_free()
      memAlloc |-> Ok(0),      \* system: gc.mem_alloc()
      freq |-> Ok(0),          \* system: machine.freq()
      time1 |-> Ok(0),         \* system: time.time() in the try block
      hasTemp |-> FALSE,       \* system: hasattr(machine, 'temperature')
      temp |-> Ok(0),          \* system: machine.temperature()
      time2 |-> Ok(0) ]        \* system: time.time() in the except block

---------------------------------------------------------------------------
(* gpio_monitor.py *)

pin_numbers == <<2, 4, 5, 16, 17, 18, 19, 21, 22, 23, 25, 26, 27, 32, 33>>
PinSet == Range(pin_numbers)

GpioSentinel ==
    <<"_", "_", "G", "P", "I", "O", "_", "S", "T", "A", "T", "E", "_", "_">>

\* a variant that leaves the separator out of the label
PinKeyNoSeparator(p) == <<"p", "i", "n">> \o IntStr(p)

\* f'pin_{pin_num}'
PinKey(p) == <<"p", "i", "n", "_">> \o IntStr(p)

\* pin.value() of a pin that reads
PinValue(p, e) == IF p \in e.high THEN 1 ELSE 0

RECURSIVE GpioLoop(_, _, _)

\* a variant whose try block is around the loop: the first failure ends it
AfterPinFaultAbort(i, acc, e) == acc

\* a variant that tries a failing pin once more before it gives the pin up
AfterPinFaultRetry(i, acc, e) ==
    GpioLoop(i + 1, [acc EXCEPT !.log = Append(@, pin_numbers[i])], e)

\* lines 18-20: "except: pass", on to the next pin
AfterPinFault(i, acc, e) == GpioLoop(i + 1, acc, e)

\* lines 14-20, from the i-th pin on; acc = [states, log, modes]
GpioLoop(i, acc, e) ==
    IF i > Len(pin_numbers) THEN acc
    ELSE LET p == pin_numbers[i]
             logged == Append(acc.log, p)
         IN  IF p \in e.initFail
             THEN AfterPinFault(i, [acc EXCEPT !.log = logged], e)
             ELSE LET configured == [acc EXCEPT !.log = logged, !.modes[p] = "IN"]
                  IN  IF p \in e.readFail
                      THEN AfterPinFault(i, configured, e)
                      ELSE GpioLoop(i + 1,
                               [configured EXCEPT !.states =
                                   DictSet(@, PinKey(p), JInt(PinValue(p, e)))],
                               e)

\* get_gpio_states(): [outcome, log, modes]
get_gpio_states(e, modes) ==
    IF e.topFault
    THEN [outcome |-> Returned(ErrorRecord(e.msg)), log |-> <<>>, modes |-> modes]
    ELSE LET acc == GpioLoop(1, [states |-> JDict(<<>>), log |-> <<>>, modes |-> modes], e)
         IN  [outcome |-> Returned(acc.states), log |-> acc.log, modes |-> acc.modes]

\* the pins that fail in one invocation: a few, or every one
PinFaultSets ==
    {S \in SUBSET PinSet : Cardinality(S) <= MaxPinFaults} \cup {PinSet}

HighPatterns == { {}, PinSet, {p \in PinSet : p % 2 = 1}, {4, 33} }

GpioEnvs ==
    { [NoEnv EXCEPT !.initFail = f[1], !.readFail = f[2], !.high = h] :
        f \in {g \in PinFaultSets \X PinFaultSets :
                  /\ g[1] \cap g[2] = {}
                  /\ (g[1] \cup g[2]) \in PinFaultSets},
        h \in HighPatterns }
    \cup { [NoEnv EXCEPT !.topFault = TRUE, !.msg = m] : m \in ErrMsgs }

Device == [pinMode |-> pinMode, wlanActive |-> wlanActive, i2cBus |-> i2cBus]

\* send_gpio_states(), the whole script
send_gpio_states ==
    /\ phase = "idle"
    /\ \E e \in GpioEnvs :
          LET r == get_gpio_states(e, pinMode)
          IN  /\ env' = e
              /\ result' = r.outcome.value
              /\ raised' = r.outcome.raised
              /\ out' = PrintMarker(GpioSentinel, r.outcome)
              /\ accessLog' = r.log
              /\ pinMode' = r.modes
    /\ phase' = "done"
    /\ probe' = "gpio"
    /\ devBefore' = Device
    /\ UNCHANGED <<tempRead, wlanActive, i2cBus>>
    /\ UNCHANGED bootVars

---------------------------------------------------------------------------
(* i2c_scanner.py *)

i2c_configs == << [id |-> 0, scl |-> 22, sda |-> 21],
                  [id |-> 1, scl |-> 25, sda |-> 26] >>

I2cSentinel ==
    <<"_", "_", "I", "2", "C", "_", "D", "E", "V", "I", "C", "E", "S", "_", "_">>

\* a variant without the membership test
AddDeviceAlways(found, device) == Append(found, device)

\* lines 24-25: "if device not in found_devices: found_devices.append(device)"
AddDevice(found, device) ==
    IF device \in Range(found) THEN found ELSE Append(found, device)

RECURSIVE AddDevices(_, _)
\* lines 23-25
AddDevices(found, devices) ==
    IF Len(devices) = 0 THEN found
    ELSE AddDevices(AddDevice(found, Head(devices)), Tail(devices))

RECURSIVE I2cLoop(_, _, _)

\* lines 27-29: "except Exception: continue"
AfterBusFault(i, acc, e) == I2cLoop(i + 1, acc, e)

\* lines 18-29, from the i-th configuration on; acc = [found, log, bus]
I2cLoop(i, acc, e) ==
    IF i > Len(i2c_configs) THEN acc
    ELSE LET config == i2c_configs[i]
             hw == e.buses[i]
             logged == Append(acc.log, config.id)
         IN  IF ~hw.initOk
             THEN AfterBusFault(i, [acc EXCEPT !.log = logged], e)
             ELSE LET inited == [acc EXCEPT !.log = logged,
                                            !.bus[config.id] = <<config.scl, config.sda>>]
                  IN  IF ~hw.scanOk
                      THEN AfterBusFault(i, inited, e)
                      ELSE I2cLoop(i + 1,
                               [inited EXCEPT !.found = AddDevices(@, hw.found)], e)

IntList(xs) == JList([i \in 1..Len(xs) |-> JInt(xs[i])])

\* scan_i2c_devices(): [outcome, log, bus]
scan_i2c_devices(e, bus) ==
    IF e.topFault
    THEN [outcome |-> Returned(ErrorRecord(e.msg)), log |-> <<>>, bus |-> bus]
    ELSE LET acc == I2cLoop(1, [found |-> <<>>, log |-> <<>>, bus |-> bus], e)
         IN  [outcome |-> Returned(IntList(acc.found)), log |-> acc.log, bus |-> acc.bus]

\* addresses a scan can report (machine.I2C.scan answers within 0x08..0x77)
SampleAddrs == {60, 104, 119}

RECURSIVE SeqsUpTo(_, _)
\* the sequences over S of length at most n
SeqsUpTo(S, n) ==
    IF n = 0 THEN { <<>> }
    ELSE LET shorter == SeqsUpTo(S, n - 1)
         IN  shorter \cup {Append(q, x) : q \in shorter, x \in S}

BusAnswers ==
    { [initOk |-> FALSE, scanOk |-> FALSE, found |-> <<>>],
      [initOk |-> TRUE, scanOk |-> FALSE, found |-> <<>>] }
    \cup { [initOk |-> TRUE, scanOk |-> TRUE, found |-> f] :
             f \in SeqsUpTo(SampleAddrs, MaxScanLen) }

I2cEnvs ==
    { [NoEnv EXCEPT !.buses = <<b0, b1>>] : b0 \in BusAnswers, b1 \in BusAnswers }
    \cup { [NoEnv EXCEPT !.topFault = TRUE, !.msg = m,
                         !.buses = <<CHOOSE b \in BusAnswers : ~b.initOk,
                                     CHOOSE b \in BusAnswers : ~b.initOk>>] :
             m \in ErrMsgs }

\* send_i2c_scan(), the whole script
send_i2c_scan ==
    /\ phase = "idle"
    /\ \E e \in I2cEnvs :
          LET r == scan_i2c_devices(e, i2cBus)
          IN  /\ env' = e
              /\ result' = r.outcome.value
              /\ raised' = r.outcome.raised
              /\ out' = PrintMarker(I2cSentinel, r.outcome)
              /\ accessLog' = r.log
              /\ i2cBus' = r.bus
    /\ phase' = "done"
    /\ probe' = "i2c"
    /\ devBefore' = Device
    /\ UNCHANGED <<tempRead, wlanActive, pinMode>>
    /\ UNCHANGED bootVars

---------------------------------------------------------------------------
(* wifi_scanner.py *)

WifiSentinel ==
    <<"_", "_", "W", "I", "F", "I", "_", "S", "C", "A", "N", "_", "_">>

HexLower == <<"0", "1", "2", "3", "4", "5", "6", "7", "8", "9",
              "a", "b", "c", "d", "e", "f">>
HexUpper == <<"0", "1", "2", "3", "4", "5", "6", "7", "8", "9",
              "A", "B", "C", "D", "E", "F">>

\* '%02x' % b and f'{b:02X}', for a byte
Hex2(b, digits) == <<digits[(b \div 16) + 1], digits[(b % 16) + 1]>>

\* the character a byte below 0x80 decodes to
ByteChar(b) ==
    CASE b = 10 -> "\n"
      [] b = 34 -> "\""
      [] b = 65 -> "A"
      [] b = 92 -> "\\"
      [] b = 112 -> "p"
      [] OTHER -> "?"

RECURSIVE DecodeUtf8(_)
\* bytes.decode('utf-8'): a lone byte of 0x80 or more is no UTF-8, and raises
DecodeUtf8(bs) ==
    IF Len(bs) = 0 THEN Ok(<<>>)
    ELSE IF Head(bs) >= 128 THEN [ok |-> FALSE, v |-> <<>>]
    ELSE LET rest == DecodeUtf8(Tail(bs))
         IN  IF rest.ok THEN Ok(<<ByteChar(Head(bs))>> \o rest.v) ELSE rest

\* line 19: net[0].decode('utf-8') if net[0] else ''
SsidText(bs) == IF Len(bs) = 0 THEN Ok(<<>>) ELSE DecodeUtf8(bs)

\* line 20: ':'.join(['%02x' % b for b in net[1]])
BssidText(bs) == Join([i \in 1..Len(bs) |-> Hex2(bs[i], HexLower)], <<":">>)

LabelOpen == <<"O", "p", "e", "n">>
LabelWEP == <<"W", "E", "P">>
LabelWPA == <<"W", "P", "A", "-", "P", "S", "K">>
LabelWPA2 == <<"W", "P", "A", "2", "-", "P", "S", "K">>
LabelWPAWPA2 == <<"W", "P", "A", "/", "W", "P", "A", "2", "-", "P", "S", "K">>
LabelUnknown == <<"U", "n", "k", "n", "o", "w", "n">>

\* lines 26-32 and 39: security_map.get(security, 'Unknown')
security_map == <<LabelOpen, LabelWEP, LabelWPA, LabelWPA2, LabelWPAWPA2>>

\* a variant without the default: an ordinal off the table gets a table entry
SecurityLabelNoDefault(security) == security_map[(security % 5) + 1]

SecurityLabel(security) ==
    IF security \in 0..4 THEN security_map[security + 1] ELSE LabelUnknown

KeySsid == <<"s", "s", "i", "d">>
KeyBssid == <<"b", "s", "s", "i", "d">>
KeyChannel == <<"c", "h", "a", "n", "n", "e", "l">>
KeyRssi == <<"r", "s", "s", "i">>
KeySecurity == <<"s", "e", "c", "u", "r", "i", "t", "y">>

\* lines 34-40, given the decoded ssid
NetRecord(net, ssid) ==
    JDict(<< JPair(KeySsid, JStr(ssid)),
             JPair(KeyBssid, JStr(BssidText(net.bssid))),
             JPair(KeyChannel, JInt(net.channel)),
             JPair(KeyRssi, JInt(net.rssi)),
             JPair(KeySecurity, JStr(SecurityLabel(net.security))) >>)

RECURSIVE FormatNets(_, _)

\* a variant with the try block inside the loop: a bad network is left out
FormatNetsSkipBad(nets, list) ==
    IF Len(nets) = 0 THEN Ok(list)
    ELSE LET ssid == SsidText(Head(nets).ssid)
         IN  IF ~ssid.ok THEN FormatNets(Tail(nets), list)
             ELSE FormatNets(Tail(nets), Append(list, NetRecord(Head(nets), ssid.v)))

\* lines 18-40: the list so far, or the exception that ended the loop
FormatNets(nets, list) ==
    IF Len(nets) = 0 THEN Ok(list)
    ELSE LET ssid == SsidText(Head(nets).ssid)
         IN  IF ~ssid.ok THEN [ok |-> FALSE, v |-> <<>>]
             ELSE FormatNets(Tail(nets), Append(list, NetRecord(Head(nets), ssid.v)))

\* scan_wifi_networks(): [outcome, active]
scan_wifi_networks(e, active) ==
    IF ~e.wlanOk
    THEN [outcome |-> Returned(ErrorRecord(e.msg)), active |-> active]
    ELSE IF ~e.activeOk
    THEN [outcome |-> Returned(ErrorRecord(e.msg)), active |-> active]
    ELSE IF ~e.scanOk
    THEN [outcome |-> Returned(ErrorRecord(e.msg)), active |-> TRUE]
    ELSE LET formatted == FormatNets(e.nets, <<>>)
         IN  IF formatted.ok
             THEN [outcome |-> Returned(JList(formatted.v)), active |-> TRUE]
             ELSE [outcome |-> Returned(ErrorRecord(e.msg)), active |-> TRUE]

Bssid1 == <<0, 26, 43, 60, 77, 255>>
Bssid2 == <<222, 173, 190, 239, 1, 16>>

Net(ssid, bssid, channel, rssi, security) ==
    [ssid |-> ssid, bssid |-> bssid, channel |-> channel, rssi |-> rssi,
     security |-> security]

\* the networks a scan can report; the last one's SSID is no UTF-8
SampleNets ==
    { Net(<<65, 112>>, Bssid1, 1, -40, 0),
      Net(<<>>, Bssid2, 6, -71, 1),
      Net(<<10, 34, 92>>, Bssid1, 11, -80, 2),
      Net(<<65>>, Bssid2, 13, -55, 3),
      Net(<<112>>, Bssid1, 1, -90, 4),
      Net(<<65>>, Bssid1, 6, -62, 5),
      Net(<<112, 65>>, Bssid2, 11, -33, 7),
      Net(<<65, 255>>, Bssid2, 1, -47, 3) }

Decodable(nets) == \A i \in 1..Len(nets) : SsidText(nets[i].ssid).ok

WifiEnvs ==
    { [NoEnv EXCEPT !.nets = n] :
        n \in {q \in SeqsUpTo(SampleNets, MaxNets) : Decodable(q)} }
    \cup { [NoEnv EXCEPT !.nets = n, !.msg = m] :
        n \in {q \in SeqsUpTo(SampleNets, MaxNets) : ~Decodable(q)}, m \in ErrMsgs }
    \cup { [NoEnv EXCEPT !.wlanOk = f[1], !.activeOk = f[2], !.scanOk = f[3], !.msg = m] :
        f \in { <<FALSE, FALSE, FALSE>>, <<TRUE, FALSE, FALSE>>, <<TRUE, TRUE, FALSE>> },
        m \in ErrMsgs }

\* send_wifi_scan(), the whole script
send_wifi_scan ==
    /\ phase = "idle"
    /\ \E e \in WifiEnvs :
          LET r == scan_wifi_networks(e, wlanActive)
          IN  /\ env' = e
              /\ result' = r.outcome.value
              /\ raised' = r.outcome.raised
              /\ out' = PrintMarker(WifiSentinel, r.outcome)
              /\ wlanActive' = r.active
    /\ phase' = "done"
    /\ probe' = "wifi"
    /\ devBefore' = Device
    /\ accessLog' = <<>>
    /\ UNCHANGED <<tempRead, pinMode, i2cBus>>
    /\ UNCHANGED bootVars

---------------------------------------------------------------------------
(* system_monitor.py *)

MonitorSentinel ==
    <<"_", "_", "M", "O", "N", "I", "T", "O", "R", "_", "D", "A", "T", "A", "_", "_">>

KeyMemory == <<"m", "e", "m", "o", "r", "y">>
KeyFree == <<"f", "r", "e", "e">>
KeyAllocated == <<"a", "l", "l", "o", "c", "a", "t", "e", "d">>
KeyFreq == <<"f", "r", "e", "q">>
KeyTimestamp == <<"t", "i", "m", "e", "s", "t", "a", "m", "p">>
KeyTemp == <<"t", "e", "m", "p">>

\* lines 12-19 run to the end iff each of the four calls returns
CollectionOk(e) == e.memFree.ok /\ e.memAlloc.ok /\ e.freq.ok /\ e.time1.ok

\* lines 29-30: {'error': str(e), 'timestamp': time.time()}; the clock is read
\* inside the handler, where nothing catches what it raises
SystemError(e) ==
    IF e.time2.ok
    THEN Returned(JDict(<< JPair(ErrorKey, JStr(e.msg)),
                           JPair(KeyTimestamp, JInt(e.time2.v)) >>))
    ELSE Raised

\* lines 12-19
BaseMetrics(e) ==
    JDict(<< JPair(KeyMemory, JDict(<< JPair(KeyFree, JInt(e.memFree.v)),
                                       JPair(KeyAllocated, JInt(e.memAlloc.v)) >>)),
             JPair(KeyFreq, JInt(e.freq.v)),
             JPair(KeyTimestamp, JInt(e.time1.v)) >>)

\* a variant that stores a temperature whatever the platform answers
WithTempAlways(metrics, e) == DictSet(metrics, KeyTemp, JInt(e.temp.v))

\* lines 22-26: the temperature, when the platform has one and it reads
WithTemp(metrics, e) ==
    IF e.hasTemp /\ e.temp.ok
    THEN DictSet(metrics, KeyTemp, JInt(e.temp.v))
    ELSE metrics

\* what became of machine.temperature() in lines 22-26
TempRead(e) ==
    IF ~CollectionOk(e) \/ ~e.hasTemp THEN "no"
    ELSE IF e.temp.ok THEN "ok" ELSE "threw"

\* get_system_metrics()
get_system_metrics(e) ==
    IF CollectionOk(e) THEN Returned(WithTemp(BaseMetrics(e), e)) ELSE SystemError(e)

SysEnvs ==
    { x \in { [NoEnv EXCEPT !.memFree = a, !.memAlloc = b, !.freq = c, !.time1 = d,
                    !.hasTemp = h, !.temp = t, !.time2 = u, !.msg = m] :
        a \in {Ok(41232), Throws}, b \in {Ok(70128), Throws},
        c \in {Ok(240000000), Throws},
        d \in {Ok(0), Ok(815411700), Throws},
        h \in BOOLEAN, t \in {Ok(53), Throws},
        u \in {Ok(815411701), Throws}, m \in ErrMsgs \cup { <<>> } } :
      (x.msg = <<>>) <=> CollectionOk(x) }

\* send_metrics(), the whole script
send_metrics ==
    /\ phase = "idle"
    /\ \E e \in SysEnvs :
          LET r == get_system_metrics(e)
          IN  /\ env' = e
              /\ result' = r.value
              /\ raised' = r.raised
              /\ out' = PrintMarker(MonitorSentinel, r)
              /\ tempRead' = TempRead(e)
    /\ phase' = "done"
    /\ probe' = "system"
    /\ devBefore' = Device
    /\ accessLog' = <<>>
    /\ UNCHANGED <<pinMode, wlanActive, i2cBus>>
    /\ UNCHANGED bootVars

---------------------------------------------------------------------------
\* the loader discards the finished script before it loads the next one
Unload ==
    /\ phase = "done"
    /\ phase' = "idle"
    /\ env' = NoEnv
    /\ result' = JNone
    /\ out' = <<>>
    /\ raised' = FALSE
    /\ accessLog' = <<>>
    /\ tempRead' = "no"
    /\ probe' = "none"
    /\ devBefore' = Device
    /\ UNCHANGED <<pinMode, wlanActive, i2cBus>>
    /\ UNCHANGED bootVars

---------------------------------------------------------------------------
(* boot.py *)

\* line 19: ':'.join([f'{byte:02X}' for byte in mac_bytes])
MacText(bs) == Join([i \in 1..Len(bs) |-> Hex2(bs[i], HexUpper)], <<":">>)

SampleMacs == { Bssid1, Bssid2, <<36, 10, 196, 0, 1, 171>> }

\* lines 5-7: the interface is switched on and asked once whether it is connected
BootActivate ==
    /\ bootpc = "start"
    /\ wlanActive' = TRUE
    /\ IF linkUp
       THEN sawConnected' = TRUE /\ bootpc' = "report"
       ELSE sawConnected' = FALSE /\ bootpc' = "connect"
    /\ UNCHANGED <<linkUp, connectCalls, idleCalls, webreplStarted, mac, mac_address>>
    /\ UNCHANGED probeVars

\* lines 8-9: wlan.connect(ssid, key)
BootConnect ==
    /\ bootpc = "connect"
    /\ connectCalls' = connectCalls + 1
    /\ bootpc' = "wait"
    /\ UNCHANGED <<linkUp, idleCalls, sawConnected, webreplStarted, mac, mac_address,
                   wlanActive>>
    /\ UNCHANGED probeVars

\* a variant of the loop that gives up after MaxIdle idle calls
BootPollTimeout ==
    /\ bootpc = "wait"
    /\ IF linkUp
       THEN sawConnected' = TRUE /\ bootpc' = "report" /\ UNCHANGED idleCalls
       ELSE IF idleCalls >= MaxIdle
       THEN bootpc' = "report" /\ UNCHANGED <<idleCalls, sawConnected>>
       ELSE /\ idleCalls' = idleCalls + 1
            /\ UNCHANGED <<bootpc, sawConnected>>
    /\ UNCHANGED <<linkUp, connectCalls, webreplStarted, mac, mac_address, wlanActive>>
    /\ UNCHANGED probeVars

\* lines 10-11, one turn of the loop: leave it connected, or machine.idle();
\* the idle calls are counted up to MaxIdle
BootPoll ==
    /\ bootpc = "wait"
    /\ IF linkUp
       THEN sawConnected' = TRUE /\ bootpc' = "report" /\ UNCHANGED idleCalls
       ELSE /\ idleCalls' = IF idleCalls < MaxIdle THEN idleCalls + 1 ELSE idleCalls
            /\ UNCHANGED <<bootpc, sawConnected>>
    /\ UNCHANGED <<linkUp, connectCalls, webreplStarted, mac, mac_address, wlanActive>>
    /\ UNCHANGED probeVars

\* lines 12-22: the address and the MAC are read, formatted and printed
BootReport ==
    /\ bootpc = "report"
    /\ mac_address' = MacText(mac)
    /\ bootpc' = "webrepl"
    /\ UNCHANGED <<linkUp, connectCalls, idleCalls, sawConnected, webreplStarted, mac,
                   wlanActive>>
    /\ UNCHANGED probeVars

\* line 23: webrepl.start()
BootWebrepl ==
    /\ bootpc = "webrepl"
    /\ webreplStarted' = TRUE
    /\ bootpc' = "done"
    /\ UNCHANGED <<linkUp, connectCalls, idleCalls, sawConnected, mac, mac_address,
                   wlanActive>>
    /\ UNCHANGED probeVars

\* the radio associates with the access point, or loses it
LinkUp ==
    /\ wlanActive /\ ~linkUp
    /\ linkUp' = TRUE
    /\ UNCHANGED <<bootpc, connectCalls, idleCalls, sawConnected, webreplStarted, mac,
                   mac_address, wlanActive>>
    /\ UNCHANGED probeVars

LinkDown ==
    /\ linkUp
    /\ linkUp' = FALSE
    /\ UNCHANGED <<bootpc, connectCalls, idleCalls, sawConnected, webreplStarted, mac,
                   mac_address, wlanActive>>
    /\ UNCHANGED probeVars

BootStep == BootActivate \/ BootConnect \/ BootPoll \/ BootReport \/ BootWebrepl

\* the pins some earlier program left as outputs when the first probe is loaded
InitOutPins == { {}, {2, 33} }

Init ==
    /\ phase = "idle"
    /\ probe = "none"
    /\ env = NoEnv
    /\ result = JNone
    /\ out = <<>>
    /\ raised = FALSE
    /\ accessLog = <<>>
    /\ tempRead = "no"
    /\ \E o \in InitOutPins : pinMode = [p \in PinSet |-> IF p \in o THEN "OUT" ELSE "IN"]
    /\ wlanActive \in BOOLEAN    \* on after boot.py, unless switched off since
    /\ i2cBus = [b \in {0, 1} |-> <<>>]
    /\ devBefore = Device
    /\ bootpc = "done"
    /\ linkUp = TRUE
    /\ connectCalls = 0
    /\ idleCalls = 0
    /\ sawConnected = TRUE
    /\ webreplStarted = TRUE
    /\ mac = Bssid1
    /\ mac_address = MacText(Bssid1)

Next ==
    \/ send_gpio_states
    \/ send_i2c_scan
    \/ send_wifi_scan
    \/ send_metrics
    \/ Unload

Spec == Init /\ [][Next]_vars

\* the device at power-on: boot.py is about to run, no probe is loaded
BootInit ==
    /\ phase = "idle"
    /\ probe = "none"
    /\ env = NoEnv
    /\ result = JNone
    /\ out = <<>>
    /\ raised = FALSE
    /\ accessLog = <<>>
    /\ tempRead = "no"
    /\ pinMode = [p \in PinSet |-> "IN"]
    /\ wlanActive \in BOOLEAN
    /\ i2cBus = [b \in {0, 1} |-> <<>>]
    /\ devBefore = Device
    /\ bootpc = "start"
    /\ linkUp \in (IF wlanActive THEN BOOLEAN ELSE {FALSE})
    /\ connectCalls = 0
    /\ idleCalls = 0
    /\ sawConnected = FALSE
    /\ webreplStarted = FALSE
    /\ mac \in SampleMacs
    /\ mac_address = <<>>

BootNext ==
    \/ BootActivate
    \/ BootConnect
    \/ BootPoll
    \/ BootReport
    \/ BootWebrepl
    \/ LinkUp
    \/ LinkDown

\* the script is the only thing running: it takes its next step when it has one
BootSpec == BootInit /\ [][BootNext]_vars /\ WF_vars(BootStep)

---------------------------------------------------------------------------
(* What the claims speak of *)

Done(p) == phase = "done" /\ probe = p

StartsWith(line, prefix) ==
    Len(line) >= Len(prefix) /\ SubSeq(line, 1, Len(prefix)) = prefix

NoRepeat(q) == \A i, j \in 1..Len(q) : i # j => q[i] # q[j]

\* the pin list and the labels as the specification writes them
ClaimPins == {2, 4, 5, 16, 17, 18, 19, 21, 22, 23, 25, 26, 27, 32, 33}
ClaimPinLabel(p) ==
    CASE p = 2 -> <<"p", "i", "n", "_", "2">>
      [] p = 4 -> <<"p", "i", "n", "_", "4">>
      [] p = 5 -> <<"p", "i", "n", "_", "5">>
      [] p = 16 -> <<"p", "i", "n", "_", "1", "6">>
      [] p = 17 -> <<"p", "i", "n", "_", "1", "7">>
      [] p = 18 -> <<"p", "i", "n", "_", "1", "8">>
      [] p = 19 -> <<"p", "i", "n", "_", "1", "9">>
      [] p = 21 -> <<"p", "i", "n", "_", "2", "1">>
      [] p = 22 -> <<"p", "i", "n", "_", "2", "2">>
      [] p = 23 -> <<"p", "i", "n", "_", "2", "3">>
      [] p = 25 -> <<"p", "i", "n", "_", "2", "5">>
      [] p = 26 -> <<"p", "i", "n", "_", "2", "6">>
      [] p = 27 -> <<"p", "i", "n", "_", "2", "7">>
      [] p = 32 -> <<"p", "i", "n", "_", "3", "2">>
      [] p = 33 -> <<"p", "i", "n", "_", "3", "3">>

\* the pins whose configure-and-read succeeded in this invocation
PinsRead == ClaimPins \ (env.initFail \cup env.readFail)

\* the i-th bus configuration was set up and scanned
BusScanned(i) == env.buses[i].initOk /\ env.buses[i].scanOk

\* every address the scanned configurations returned, configuration 0 first
AllFound ==
    (IF BusScanned(1) THEN env.buses[1].found ELSE <<>>)
        \o (IF BusScanned(2) THEN env.buses[2].found ELSE <<>>)

FirstIndex(q, x) == CHOOSE k \in 1..Len(q) : q[k] = x /\ \A m \in 1..(k - 1) : q[m] # x

\* some scanned network's SSID cannot be decoded, so formatting it throws
FormattingThrows ==
    \E i \in 1..Len(env.nets) :
        \E j \in 1..Len(env.nets[i].ssid) : env.nets[i].ssid[j] >= 128

WifiFailure == ~env.wlanOk \/ ~env.activeOk \/ ~env.scanOk \/ FormattingThrows

\* memory, frequency and timestamp were all collected
Collected == env.memFree.ok /\ env.memAlloc.ok /\ env.freq.ok /\ env.time1.ok

ProbeFailure ==
    CASE probe = "gpio" -> env.topFault
      [] probe = "i2c" -> env.topFault
      [] probe = "wifi" -> WifiFailure
      [] probe = "system" -> ~Collected
      [] OTHER -> FALSE

SentinelOf(p) ==
    CASE p = "gpio" -> GpioSentinel
      [] p = "i2c" -> I2cSentinel
      [] p = "wifi" -> WifiSentinel
      [] OTHER -> MonitorSentinel

\* {"error": "<message>"} written out for the two messages of ErrMsgs
ErrorJson(m) ==
    <<"{", "\"", "e", "r", "r", "o", "r", "\"", ":", " ", "\"">>
    \o (IF m = <<"E", "1", "9">>
        THEN <<"E", "1", "9">>
        ELSE <<"b", "u", "s", "\\", "n", "\\", "\"", "x", "\\", "\"">>)
    \o <<"\"", "}">>

---------------------------------------------------------------------------
(* C1 *)

\* C1: every invocation of a probe, whatever its hardware and runtime calls
\* do, lets no exception escape and writes exactly one marker line, which
\* begins with the probe's sentinel and holds no newline.
C1_OneMarkerLine ==
    phase = "done" =>
        /\ ~raised
        /\ Len(out) = 1
        /\ StartsWith(out[1], SentinelOf(probe))
        /\ "\n" \notin Range(out[1])

---------------------------------------------------------------------------
(* C2 *)

\* C2: partial results. The GPIO mapping holds pin_<n> for exactly the pins
\* whose configure-and-read succeeded, and the I2C list holds every address
\* returned by every configuration whose init-and-scan succeeded, wherever
\* in the enumeration the failing units are.
C2_PartialResults ==
    /\ (Done("gpio") /\ ~env.topFault) =>
          /\ result.t = "dict"
          /\ Keys(result) = {ClaimPinLabel(p) : p \in PinsRead}
          /\ Len(result.kids) = Cardinality(PinsRead)
    /\ (Done("i2c") /\ ~env.topFault) =>
          /\ result.t = "list"
          /\ \A a \in Range(AllFound) : JInt(a) \in Range(result.kids)

\* the first pin of the list fails and the fourteen others are reported
C2_Witness ==
    /\ Done("gpio")
    /\ env.initFail = {2}
    /\ env.readFail = {}
    /\ Len(result.kids) = 14
    /\ ~HasKey(result, ClaimPinLabel(2))
    /\ HasKey(result, ClaimPinLabel(33))

---------------------------------------------------------------------------
(* C3 *)

\* C3: a payload is the normal shape or an error record, never both: it has
\* an 'error' key only after a probe-level failure, and then no unit result
\* beside it; a Wi-Fi probe whose interface is missing, whose scan throws or
\* whose formatting of one network throws prints __WIFI_SCAN__{"error": msg}.
C3_ErrorOrResult ==
    (phase = "done" /\ ~raised) =>
        /\ result.t \in {"dict", "list"}
        /\ HasKey(result, ErrorKey) =>
              /\ ProbeFailure
              /\ Keys(result) = IF probe = "system" THEN {ErrorKey, KeyTimestamp}
                                                    ELSE {ErrorKey}
              /\ Len(result.kids) = Cardinality(Keys(result))
              /\ Get(result, ErrorKey) = JStr(env.msg)
        /\ (probe = "wifi" /\ WifiFailure) =>
              out = << WifiSentinel \o ErrorJson(env.msg) >>

\* the first network formats, the second one does not: only the error is left
C3_Witness ==
    /\ Done("wifi")
    /\ env.wlanOk /\ env.activeOk /\ env.scanOk
    /\ Len(env.nets) = 2
    /\ env.nets[1].ssid = <<65, 112>>
    /\ env.nets[2].ssid = <<65, 255>>
    /\ result = ErrorRecord(env.msg)
    /\ "\n" \in Range(env.msg)

---------------------------------------------------------------------------
(* C4 *)

\* C4: whenever collecting memory, frequency or timestamp throws, the System
\* probe's result is a record of exactly 'error' and 'timestamp', also when
\* it is the clock read that fails.
C4_ErrorRecordHasTimestamp ==
    (Done("system") /\ ~Collected) =>
        /\ result.t = "dict"
        /\ Keys(result) = {ErrorKey, KeyTimestamp}

---------------------------------------------------------------------------
(* C5 *)

\* C5: a GPIO result that is no error record maps keys pin_<n>, n in the
\* candidate list, to 0 or 1; when every pin fails it is the empty mapping.
C5_GpioShape ==
    (Done("gpio") /\ ~HasKey(result, ErrorKey)) =>
        /\ result.t = "dict"
        /\ \A i \in 1..Len(result.kids) :
              /\ result.kids[i].s \in {ClaimPinLabel(p) : p \in ClaimPins}
              /\ result.kids[i].kids[1].t = "int"
              /\ result.kids[i].kids[1].n \in {0, 1}
        /\ (~env.topFault /\ PinsRead = {}) => result = JDict(<<>>)

\* every pin fails, some at Pin(), and the probe prints the empty mapping
C5_Witness ==
    /\ Done("gpio")
    /\ ~env.topFault
    /\ env.initFail = ClaimPins
    /\ result = JDict(<<>>)
    /\ out = << GpioSentinel \o <<"{", "}">> >>

---------------------------------------------------------------------------
(* C6 *)

\* C6: an I2C result that is no error record lists every found address once,
\* each within 0..127, in the order of first discovery (configuration 0's
\* scan, then configuration 1's new addresses); it is empty when no
\* configuration succeeds.
C6_I2cList ==
    (Done("i2c") /\ ~HasKey(result, ErrorKey)) =>
        LET items == [i \in 1..Len(result.kids) |-> result.kids[i].n]
        IN  /\ result.t = "list"
            /\ \A i \in 1..Len(result.kids) : result.kids[i].t = "int"
            /\ NoRepeat(items)
            /\ Range(items) = Range(AllFound)
            /\ \A i \in 1..Len(items) : items[i] \in 0..127
            /\ \A i, j \in 1..Len(items) :
                  i < j => FirstIndex(AllFound, items[i]) < FirstIndex(AllFound, items[j])
            /\ (~BusScanned(1) /\ ~BusScanned(2)) => items = <<>>

\* both buses answer, one address is on both of them
C6_Witness ==
    /\ Done("i2c")
    /\ env.buses[1].found = <<104, 60>>
    /\ env.buses[2].found = <<60, 119>>
    /\ BusScanned(1) /\ BusScanned(2)
    /\ result = IntList(<<104, 60, 119>>)

---------------------------------------------------------------------------
(* C7 *)

\* C7: the Wi-Fi probe labels security ordinals 0..4 Open, WEP, WPA-PSK,
\* WPA2-PSK, WPA/WPA2-PSK and every other ordinal Unknown; an unknown
\* ordinal is no fault, and the list has one record per scanned network in
\* the order of the scan.
C7_SecurityLabels ==
    (Done("wifi") /\ ~WifiFailure) =>
        /\ result.t = "list"
        /\ Len(result.kids) = Len(env.nets)
        /\ \A i \in 1..Len(env.nets) :
              LET rec == result.kids[i]
                  ord == env.nets[i].security
              IN  /\ rec.t = "dict"
                  /\ Get(rec, KeySecurity).s =
                        CASE ord = 0 -> LabelOpen
                          [] ord = 1 -> LabelWEP
                          [] ord = 2 -> LabelWPA
                          [] ord = 3 -> LabelWPA2
                          [] ord = 4 -> LabelWPAWPA2
                          [] OTHER -> LabelUnknown
                  /\ Get(rec, KeyChannel).n = env.nets[i].channel
                  /\ Get(rec, KeyRssi).n = env.nets[i].rssi

\* a scan of two networks, the second with the unknown ordinal 7
C7_Witness ==
    /\ Done("wifi")
    /\ ~WifiFailure
    /\ Len(env.nets) = 2
    /\ env.nets[1].security = 4
    /\ env.nets[2].security = 7
    /\ Len(result.kids) = 2
    /\ Get(result.kids[2], KeySecurity) = JStr(<<"U", "n", "k", "n", "o", "w", "n">>)

---------------------------------------------------------------------------
(* C8 *)

\* C8: the System result has 'temp' iff the platform has a temperature and
\* reading it succeeded; without it the result still has memory.free,
\* memory.allocated, freq and timestamp and is no error record.
C8_TempOptional ==
    (Done("system") /\ ~raised) =>
        /\ HasKey(result, KeyTemp) <=> (Collected /\ env.hasTemp /\ env.temp.ok)
        /\ (Collected /\ (~env.hasTemp \/ ~env.temp.ok)) =>
              /\ Keys(result) = {KeyMemory, KeyFreq, KeyTimestamp}
              /\ Len(result.kids) = 3
              /\ Keys(Get(result, KeyMemory)) = {KeyFree, KeyAllocated}
              /\ Get(Get(result, KeyMemory), KeyFree) = JInt(env.memFree.v)
              /\ Get(Get(result, KeyMemory), KeyAllocated) = JInt(env.memAlloc.v)
              /\ Get(result, KeyFreq) = JInt(env.freq.v)
              /\ Get(result, KeyTimestamp) = JInt(env.time1.v)

\* the platform has a temperature, and reading it throws
C8_Witness ==
    /\ Done("system")
    /\ Collected
    /\ env.hasTemp /\ ~env.temp.ok
    /\ tempRead = "threw"
    /\ ~HasKey(result, KeyTemp)
    /\ HasKey(result, KeyFreq)

---------------------------------------------------------------------------
(* C9 *)

\* C9, as claimed: after a probe ran to completion the device state a later
\* invocation can observe (pin modes, the station's active flag, the I2C bus
\* configuration) is what it was before, and no unit was accessed twice.
C9_DeviceUnchanged ==
    phase = "done" => (Device = devBefore /\ NoRepeat(accessLog))

\* C9, amended: no unit is accessed twice in one invocation, and the device
\* state after a probe is what it was before except that the GPIO probe
\* leaves in input mode every candidate pin whose configuration succeeded,
\* the I2C probe leaves configured on its scl/sda pair every bus whose
\* set-up succeeded, and the Wi-Fi probe leaves the station active once
\* active(True) succeeded; the System probe changes nothing.
C9_DeviceChangesOnly ==
    phase = "done" =>
        /\ NoRepeat(accessLog)
        /\ Done("gpio") =>
              /\ wlanActive = devBefore.wlanActive /\ i2cBus = devBefore.i2cBus
              /\ \A p \in ClaimPins :
                    pinMode[p] = IF ~env.topFault /\ p \notin env.initFail
                                 THEN "IN" ELSE devBefore.pinMode[p]
        /\ Done("i2c") =>
              /\ wlanActive = devBefore.wlanActive /\ pinMode = devBefore.pinMode
              /\ i2cBus[0] = IF ~env.topFault /\ env.buses[1].initOk
                             THEN <<22, 21>> ELSE devBefore.i2cBus[0]
              /\ i2cBus[1] = IF ~env.topFault /\ env.buses[2].initOk
                             THEN <<25, 26>> ELSE devBefore.i2cBus[1]
        /\ Done("wifi") =>
              /\ pinMode = devBefore.pinMode /\ i2cBus = devBefore.i2cBus
              /\ wlanActive = (devBefore.wlanActive \/ (env.wlanOk /\ env.activeOk))
        /\ Done("system") => Device = devBefore

\* an output pin became an input; the pin whose Pin() threw stayed an output
C9_Witness ==
    /\ Done("gpio")
    /\ devBefore.pinMode[2] = "OUT" /\ pinMode[2] = "IN"
    /\ env.initFail = {33}
    /\ devBefore.pinMode[33] = "OUT" /\ pinMode[33] = "OUT"
    /\ Len(accessLog) = 15

---------------------------------------------------------------------------
(* C10, under BootSpec *)

\* C10: webrepl.start() is reached only after the station reported
\* connected; a station not connected at boot gets exactly one connect and
\* an idle loop without retry or timeout, so the boot goes no further while
\* the station never reports connected, and starts WebREPL once it does.
C10_BootWaitsForLink ==
    /\ [](webreplStarted => sawConnected)
    /\ [](bootpc \in {"report", "webrepl", "done"} => sawConnected)
    /\ [](connectCalls <= 1)
    /\ [](bootpc = "wait" => connectCalls = 1)
    /\ [][connectCalls' # connectCalls => (bootpc = "connect" /\ ~sawConnected)]_vars
    /\ [][(bootpc = "wait" /\ bootpc' # "wait") => (linkUp /\ sawConnected')]_vars
    /\ (sawConnected ~> webreplStarted)

\* WebREPL runs after one connect and a full count of idle calls
C10_Witness ==
    /\ webreplStarted
    /\ connectCalls = 1
    /\ idleCalls = MaxIdle
    /\ mac_address = <<"2", "4", ":", "0", "A", ":", "C", "4", ":", "0", "0", ":",
                       "0", "1", ":", "A", "B">>
====
